---- MODULE Spec2Model ----
(***************************************************************************)
(* seo.py: a sequential SEO scanner.  For every domain of the command line *)
(* scan() runs sitemap_scan() and then seo_scan(); the rows are written to *)
(* scan_output.csv after the last domain.  Every HTTP exchange is a step   *)
(* of the model and its response is chosen by the environment.             *)
(***************************************************************************)
EXTENDS Integers, Sequences, FiniteSets, TLC

\* ---------------------------------------------------------------- bounds
MaxDomains == 2   \* domains on the command line
MaxUrls == 1      \* <url> entries in one sitemap document
MaxLocs == 1      \* entries in one list of child sitemaps

\* ------------------------------------------------------- python values
None == "None"
HTTPStatus_OK == 200
\* any status that is not OK
NOT_FOUND == 404

\* dict[key] = value
Put(d, k, v) == [x \in (DOMAIN d) \cup {k} |-> IF x = k THEN v ELSE d[x]]
\* key in dict
Has(d, k) == k \in DOMAIN d
\* all sequences over S of length at most n
SeqUpTo(S, n) == UNION {[1..m -> S] : m \in 0..n}
\* len(s) != len(set(s))
HasDuplicates(s) == Len(s) /= Cardinality({s[k] : k \in DOMAIN s})

\* ------------------------------------------------------------- inputs
\* sys.argv[1].split(',')
domains == [k \in 1..MaxDomains |-> k]
\* "https://%s" % domain
Fqd(domain) == <<"https://", domain>>
\* fqd + path
Url(fqd, path) == <<fqd, path>>

pages == <<"/", "/privacy">>

scan_data_default ==
    [k \in {"Platforms", "Sitemap status code", "Sitemap final url", "Robots.txt",
            "Crawl delay", "Main tags found", "Search found", "Pages", "Warnings"}
        |-> None]
    @@ [k \in {"Sitemap items", "PDFs in sitemap", "Total URLs"} |-> 0]
    @@ [k \in {"Sitemaps from index", "Sitemaps from robots"} |-> <<>>]
    @@ ("Est time to index" :> "Unknown")
    @@ [k \in {pages[n] : n \in DOMAIN pages} |-> None]

\* the texts of the <url> entries of a document with n of them
UrlTexts(n) == [k \in 1..n |-> IF k = 1 THEN "/report.pdf" ELSE "/about"]
\* '.pdf' in u.get_text()
IsPdf(text) == text = "/report.pdf"
\* len([u for u in urls if '.pdf' in u.get_text()])
PdfCount(urls) == Cardinality({k \in DOMAIN urls : IsPdf(urls[k])})

\* where sitemap documents of a site live
SitemapPaths == {"/sitemap.xml", "/sitemap2.xml"}
SitemapUrls(fqd) == {Url(fqd, p) : p \in SitemapPaths}

\* requests.get raising (timeout, DNS, connection refused)
ConnectionError == [raised |-> TRUE]
\* a requests.Response
Response(status, url, text) ==
    [raised |-> FALSE, status_code |-> status, url |-> url, text |-> text]
\* bool(response) is response.ok
Ok(r) == r.status_code < 400
\* a local variable that was never assigned
Unbound == [bound |-> FALSE]
Bound(r) == [bound |-> TRUE, value |-> r]

NoDocument == [urls |-> <<>>, sitemapindex |-> FALSE, locs |-> <<>>]
SitemapDocuments(fqd) ==
    {[urls |-> UrlTexts(n), sitemapindex |-> FALSE, locs |-> <<>>] : n \in 0..MaxUrls}
    \cup {[urls |-> UrlTexts(n), sitemapindex |-> TRUE, locs |-> l] :
             n \in 0..MaxUrls, l \in SeqUpTo(SitemapUrls(fqd), MaxLocs)}
\* what GET {fqd}/sitemap.xml can answer (no redirect: the final url is the
\* requested one)
SitemapResponses(fqd) ==
    {ConnectionError}
    \cup {Response(NOT_FOUND, Url(fqd, "/sitemap.xml"), NoDocument)}
    \cup {Response(HTTPStatus_OK, Url(fqd, "/sitemap.xml"), t) : t \in SitemapDocuments(fqd)}

\* what the regular expressions of lines 126 and 129 find in a body
CrawlDelayLists == {<<>>, <<"5", "10">>}
NoRobotsText == [crawl_delay |-> <<>>, sitemap |-> <<>>]
RobotsTexts(fqd) == [crawl_delay : CrawlDelayLists, sitemap : SeqUpTo(SitemapUrls(fqd), MaxLocs)]
RobotsResponses(fqd, url) ==
    {ConnectionError}
    \cup {Response(NOT_FOUND, url, NoRobotsText)}
    \cup {Response(HTTPStatus_OK, url, t) : t \in RobotsTexts(fqd)}

\* what GET of a child sitemap can answer: text is the number of <url> entries
ChildResponses(loc) ==
    {ConnectionError}
    \cup {Response(NOT_FOUND, loc, 0)}
    \cup {Response(HTTPStatus_OK, loc, n) : n \in 0..MaxUrls}

\* int(str) of a crawl delay
IntOf(s) == CASE s = "5" -> 5 [] s = "10" -> 10
\* bool(value) of line 157
Truthy(v) == v \notin {None, ""}

\* x = requests.get(...) in a try block: x keeps its value when the call raises
Assigned(x, resp) == IF resp.raised THEN x ELSE Bound(resp)

\* -------------------------------------------------------------- state
VARIABLES
    pc,              \* where the program is
    error,           \* the uncaught exception that ended the program, <<type, line>>
    i,               \* index of the domain the loop of line 279 is at
    domain_data,     \* the rows collected so far
    csv,             \* the rows written to scan_output.csv
    scan_data,       \* the module-level dict
    http,            \* the HTTP exchange of the last step: who asked, for what, raised or not
    robots,          \* sitemap_scan's local
    additional_urls, \* sitemap_scan's local
    locs,            \* what the running for loop of sitemap_scan has left to visit
    results,         \* seo_scan's local dict
    titles,          \* seo_scan's local
    descriptions,    \* seo_scan's local
    page_i,          \* index of the page the loop of line 192 is at
    r                \* seo_scan's local: the page's response

vars == <<pc, error, i, domain_data, csv, scan_data, http, robots,
          additional_urls, locs, results, titles, descriptions, page_i, r>>
main_vars == <<i, domain_data, csv>>
sitemap_locals == <<robots, additional_urls, locs>>
seo_locals == <<results, titles, descriptions, page_i, r>>

fqd == Fqd(domains[i])

NoExchange == [by |-> "nobody", url |-> <<>>, raised |-> FALSE]
Exchange(by, url, resp) == [by |-> by, url |-> url, raised |-> resp.raised]

Init ==
    /\ pc = "main"
    /\ error = None
    /\ i = 1
    /\ domain_data = <<>>
    /\ csv = <<>>
    /\ scan_data = scan_data_default
    /\ http = NoExchange
    /\ robots = Unbound
    /\ additional_urls = 0
    /\ locs = <<>>
    /\ results = <<>>
    /\ titles = <<>>
    /\ descriptions = <<>>
    /\ page_i = 1
    /\ r = Unbound

\* an exception nobody catches ends the program with a traceback
Raise(type, line) == /\ pc' = "crashed"
                     /\ error' = <<type, line>>

\* -------------------------------------------------------------- main
\* for domain in domains: scan(domain) enters sitemap_scan(fqd, scan_data)
CallScan ==
    /\ pc = "main"
    /\ i <= Len(domains)
    /\ pc' = "sitemap_scan"
    /\ http' = NoExchange
    /\ UNCHANGED <<error, main_vars, scan_data, sitemap_locals, seo_locals>>

\* ------------------------------------------------------- sitemap_scan
\* lines 98-110 on a response
ParseSitemap(res, resp) ==
    IF Ok(resp) /\ resp.status_code = HTTPStatus_OK
    THEN LET urls == resp.text.urls
             res1 == Put(res, "url_tag_count", Len(urls))
             res2 == IF urls /= <<>> THEN Put(res1, "pdfs_in_urls", PdfCount(urls)) ELSE res1
         IN  IF resp.text.sitemapindex
             THEN Put(res2, "sitemap_locations_from_index", resp.text.locs)
             ELSE res2
    ELSE res

\* lines 87-110: GET {fqd}/sitemap.xml, then parse it
GetSitemap ==
    /\ pc = "sitemap_scan"
    /\ \E resp \in SitemapResponses(fqd) :
          /\ http' = Exchange("sitemap", Url(fqd, "/sitemap.xml"), resp)
          /\ IF ~Assigned(Unbound, resp).bound
             THEN /\ scan_data' = Put(scan_data, "status_code", "Could not get data")
                  /\ Raise("UnboundLocalError", 98)
             ELSE /\ scan_data' = ParseSitemap(
                        Put(Put(scan_data, "status_code", resp.status_code),
                            "final_url", resp.url), resp)
                  /\ pc' = "robots"
                  /\ UNCHANGED error
    /\ robots' = Unbound
    /\ UNCHANGED <<main_vars, additional_urls, locs, seo_locals>>

\* the url line 117 asks for
RobotsUrl(base) == Url(base, "/sitemap.xml")

\* lines 118-131 on a response
ParseRobots(res, resp) ==
    IF Ok(resp) /\ resp.status_code = HTTPStatus_OK
    THEN LET cd == resp.text.crawl_delay
             res1 == Put(res, "robots", "OK")
             res2 == IF cd /= <<>> THEN Put(res1, "crawl_delay", cd[1]) ELSE res1
         IN  Put(res2, "sitemap_locations_from_robotstxt", resp.text.sitemap)
    ELSE Put(res, "robots", resp.status_code)

\* for loc in results[key]: the list a loop of sitemap_scan walks
EnterLoop(res, key, line, next) ==
    IF Has(res, key)
    THEN /\ locs' = res[key]
         /\ pc' = next
         /\ UNCHANGED error
    ELSE /\ Raise("KeyError", line)
         /\ UNCHANGED locs

\* lines 115-139: the robots request, then the first loop is entered
GetRobots ==
    /\ pc = "robots"
    /\ \E resp \in RobotsResponses(fqd, RobotsUrl(fqd)) :
          /\ http' = Exchange("robots", RobotsUrl(fqd), resp)
          /\ robots' = Assigned(robots, resp)
          /\ scan_data' = IF resp.raised THEN scan_data ELSE ParseRobots(scan_data, resp)
    /\ additional_urls' = 0
    /\ EnterLoop(scan_data', "sitemap_locations_from_index", 139, "index_loop")
    /\ UNCHANGED <<main_vars, seo_locals>>

\* a loop that fetches every child sitemap it is given
ShouldFetchAlways(loc, res) == TRUE

\* lines 140 and 148: is this child sitemap fetched?
ShouldFetch(loc, res) == loc /= res["final_url"]

\* lines 140-145 and 148-152: one turn of a loop over child sitemaps
FetchChild(by, line) ==
    LET loc == Head(locs) IN
    /\ locs /= <<>>
    /\ locs' = Tail(locs)
    /\ IF ShouldFetch(loc, scan_data)
       THEN \E resp \in ChildResponses(loc) :
               /\ http' = Exchange(by, loc, resp)
               /\ IF resp.raised
                  THEN /\ Raise("ConnectionError", line)
                       /\ UNCHANGED additional_urls
                  ELSE /\ additional_urls' =
                             IF resp.status_code = HTTPStatus_OK
                             THEN additional_urls + resp.text
                             ELSE additional_urls
                       /\ UNCHANGED <<pc, error>>
       ELSE /\ http' = NoExchange
            /\ UNCHANGED <<pc, error, additional_urls>>
    /\ UNCHANGED <<main_vars, scan_data, robots, seo_locals>>

\* lines 139-145
IndexLoop ==
    /\ pc = "index_loop"
    /\ FetchChild("index_child", 142)

\* line 147: the first loop is over, the second is entered
IndexLoopDone ==
    /\ pc = "index_loop"
    /\ locs = <<>>
    /\ EnterLoop(scan_data, "sitemap_locations_from_robotstxt", 147, "robots_loop")
    /\ http' = NoExchange
    /\ UNCHANGED <<main_vars, scan_data, robots, additional_urls, seo_locals>>

\* lines 147-152
RobotsLoop ==
    /\ pc = "robots_loop"
    /\ FetchChild("robots_child", 149)

\* line 159
EstTimeToIndex(total, delay) == <<total * IntOf(delay), 3600>>

\* lines 153-162: the totals, and sitemap_scan returns
Totals(res, additional) ==
    LET res1 == Put(res, "Total URLs", res["Total URLs"] + additional)
    IN  IF Truthy(res1["Crawl delay"])
        THEN Put(res1, "Est time to index",
                 EstTimeToIndex(res1["Total URLs"], res1["Crawl delay"]))
        ELSE res1

SitemapScanReturn ==
    /\ pc = "robots_loop"
    /\ locs = <<>>
    /\ scan_data' = Totals(scan_data, additional_urls)
    /\ pc' = "seo_scan"
    /\ http' = NoExchange
    /\ UNCHANGED <<error, main_vars, sitemap_locals, seo_locals>>

\* ----------------------------------------------------------- seo_scan
\* what select_one gives: no tag, a tag with a content attribute, a tag without
NoTag == [found |-> FALSE]
Meta(content) == [found |-> TRUE, content |-> content]
BareMeta == [found |-> TRUE]

Titles == {None, "Home", "Privacy Policy"}
\* the pages a site can serve: at most one of the later date tags, a main
\* element or the role, a search input or the class
Htmls ==
    {h \in [title : Titles,
            description : {NoTag, BareMeta, Meta("About us")},
            published_time : {NoTag, Meta("2020-01-01")},
            modified_time : {NoTag, Meta("2021-01-01")},
            dc_date : {NoTag, BareMeta},
            main : BOOLEAN, role_main : BOOLEAN,
            input_search : BOOLEAN, class_search : BOOLEAN] :
        /\ ~(h.modified_time.found /\ h.dc_date.found)
        /\ ~(h.main /\ h.role_main)
        /\ ~(h.input_search /\ h.class_search)}
\* one of them
SampleHtmls ==
    {h \in Htmls : /\ h.title = "Home" /\ h.description = NoTag
                   /\ h.published_time = NoTag /\ h.modified_time = NoTag
                   /\ h.dc_date = NoTag
                   /\ h.main /\ ~h.role_main /\ h.input_search /\ ~h.class_search}
NoHtml == [title |-> None]
\* what GET of a page can answer: a failure among `failures`, or a page of `htmls`
Failures == {"raise", "404"}
PageResponses(url, failures, htmls) ==
    {ConnectionError : f \in failures \cap {"raise"}}
    \cup {Response(NOT_FOUND, url, NoHtml) : f \in failures \cap {"404"}}
    \cup {Response(HTTPStatus_OK, url, h) : h \in htmls}

\* builtwith(fqd)
NoBuildInfo == <<>>
BuildInfos == {NoBuildInfo, [web_frameworks |-> "Django"]}

\* lines 175-180
seo_results == ("Platforms" :> "Unknown") @@ ("Main tags found" :> FALSE)
               @@ ("Search found" :> FALSE) @@ ("Warnings" :> <<>>)

\* lines 173-191: seo_scan is entered, its results start afresh
SeoScanStart(build_infos) ==
    /\ pc = "seo_scan"
    /\ \E build_info \in build_infos :
          results' = IF Has(build_info, "web_frameworks")
                     THEN Put(seo_results, "Platforms", build_info["web_frameworks"])
                     ELSE seo_results
    /\ titles' = <<>>
    /\ descriptions' = <<>>
    /\ page_i' = 1
    /\ r' = Unbound
    /\ pc' = "pages"
    /\ http' = NoExchange
    /\ robots' = Unbound
    /\ additional_urls' = 0
    /\ locs' = <<>>
    /\ UNCHANGED <<error, main_vars, scan_data>>

\* lines 208-212: the first date tag there is
DateTag(html) == IF html.published_time.found THEN html.published_time
                 ELSE IF html.modified_time.found THEN html.modified_time
                 ELSE html.dc_date

\* a page audit that looks for the main tag on every page
MainTagsFoundOnThisPage(res, html) == html.main \/ html.role_main

\* lines 219-224
MainTagsFound(res, html) ==
    IF ~res["Main tags found"] THEN (html.main \/ html.role_main)
    ELSE res["Main tags found"]

\* lines 227-232
SearchFound(res, html) ==
    IF ~res["Search found"] THEN (html.input_search \/ html.class_search)
    ELSE res["Search found"]

\* lines 199-242 on a page that was found: what the locals are afterwards
AuditHtml(res, ts, ds, page, html) ==
    LET Failed(t, d) == [results |-> Put(res, page, "Could not get data"),
                         titles |-> t, descriptions |-> d]
        ts1 == Append(ts, html.title)
        description == html.description
        ds1 == IF description.found THEN Append(ds, description.content) ELSE ds
        dc_date == DateTag(html)
        res1 == Put(res, "Main tags found", MainTagsFound(res, html))
        res2 == Put(res1, "Search found", SearchFound(res1, html))
    IN  IF html.title = None THEN Failed(ts, ds)
        ELSE IF description.found /\ ~Has(description, "content") THEN Failed(ts1, ds)
        ELSE IF dc_date.found /\ ~Has(dc_date, "content") THEN Failed(ts1, ds1)
        ELSE [results |-> Put(res2, page,
                              [title |-> html.title, description |-> description,
                               date |-> IF dc_date.found THEN dc_date.content ELSE None]),
              titles |-> ts1, descriptions |-> ds1]

\* lines 192-242: one turn of the loop over the pages
AuditPage(failures, htmls) ==
    LET page == pages[page_i] IN
    /\ pc = "pages"
    /\ page_i <= Len(pages)
    /\ \E resp \in PageResponses(Url(fqd, page), failures, htmls) :
          /\ http' = Exchange("page", Url(fqd, page), resp)
          /\ r' = Assigned(r, resp)
          /\ IF resp.raised
             THEN /\ results' = Put(results, page, "Could not get data")
                  /\ UNCHANGED <<titles, descriptions>>
             ELSE IF resp.status_code /= HTTPStatus_OK
             THEN /\ results' = Put(results, page, "404")
                  /\ UNCHANGED <<titles, descriptions>>
             ELSE LET after == AuditHtml(results, titles, descriptions, page, resp.text)
                  IN  /\ results' = after.results
                      /\ titles' = after.titles
                      /\ descriptions' = after.descriptions
    /\ page_i' = page_i + 1
    /\ UNCHANGED <<pc, error, main_vars, scan_data, sitemap_locals>>

\* lines 246-249: results['warnings'][tag] = True
Warn(res, tag) == Put(res, "warnings", Put(res["warnings"], tag, TRUE))

\* lines 244-253: the duplicate checks, and seo_scan returns
DupCheck ==
    /\ pc = "pages"
    /\ page_i > Len(pages)
    /\ IF HasDuplicates(titles) /\ ~Has(results, "warnings")
       THEN /\ Raise("KeyError", 247)
            /\ UNCHANGED results
       ELSE LET res1 == IF HasDuplicates(titles)
                        THEN Warn(results, "Duplicate titles found") ELSE results
            IN  IF HasDuplicates(descriptions) /\ ~Has(res1, "warnings")
                THEN /\ Raise("KeyError", 249)
                     /\ UNCHANGED results
                ELSE /\ results' = IF HasDuplicates(descriptions)
                                   THEN Warn(res1, "Duplicate descriptions found")
                                   ELSE res1
                     /\ pc' = "seo_returned"
                     /\ UNCHANGED error
    /\ http' = NoExchange
    /\ UNCHANGED <<main_vars, scan_data, sitemap_locals, titles, descriptions, page_i, r>>

\* lines 270 and 281: scan returns and the row is collected
ScanReturn ==
    /\ pc = "seo_returned"
    /\ domain_data' = Append(domain_data, results)
    /\ i' = i + 1
    /\ pc' = "main"
    /\ http' = NoExchange
    /\ results' = <<>>
    /\ titles' = <<>>
    /\ descriptions' = <<>>
    /\ page_i' = 1
    /\ r' = Unbound
    /\ UNCHANGED <<error, csv, scan_data, sitemap_locals>>

\* csv.DictWriter.writerows: a row with a key that is no field name is refused
RowsFit(rows, fieldnames) == \A k \in DOMAIN rows : DOMAIN rows[k] \subseteq fieldnames

\* lines 283-289: after the last domain the rows are written
WriteCsv ==
    /\ pc = "main"
    /\ i > Len(domains)
    /\ IF RowsFit(domain_data, DOMAIN scan_data)
       THEN /\ csv' = domain_data
            /\ pc' = "done"
            /\ UNCHANGED error
       ELSE /\ Raise("ValueError", 288)
            /\ UNCHANGED csv
    /\ http' = NoExchange
    /\ UNCHANGED <<i, domain_data, scan_data, sitemap_locals, seo_locals>>

\* ------------------------------------------------------ specifications
\* sitemap_scan, and the rest of scan and of the main loop
SitemapScan ==
    \/ GetSitemap
    \/ GetRobots
    \/ IndexLoop
    \/ IndexLoopDone
    \/ RobotsLoop
    \/ SitemapScanReturn

Main ==
    \/ CallScan
    \/ ScanReturn
    \/ WriteCsv

\* the program run on MaxDomains domains; a page times out, is not found or
\* is the sample page
Next ==
    \/ Main
    \/ SitemapScan
    \/ SeoScanStart({NoBuildInfo})
    \/ AuditPage(Failures, SampleHtmls)
    \/ DupCheck

Spec == Init /\ [][Next]_vars

\* the program run on MaxDomains domains whose pages are all not found: the
\* page pass is one path, the sitemap pass is explored in full
SitemapNext ==
    \/ Main
    \/ SitemapScan
    \/ SeoScanStart({NoBuildInfo})
    \/ AuditPage({"404"}, {})
    \/ DupCheck

SitemapSpec == Init /\ [][SitemapNext]_vars

\* seo_scan(fqd, scan_data) called on its own for the first domain, on any
\* page a site can serve
SeoInit ==
    /\ pc = "seo_scan"
    /\ error = None
    /\ i = 1
    /\ domain_data = <<>>
    /\ csv = <<>>
    /\ scan_data = scan_data_default
    /\ http = NoExchange
    /\ robots = Unbound
    /\ additional_urls = 0
    /\ locs = <<>>
    /\ results = <<>>
    /\ titles = <<>>
    /\ descriptions = <<>>
    /\ page_i = 1
    /\ r = Unbound

SeoNext ==
    \/ SeoScanStart(BuildInfos)
    \/ AuditPage(Failures, Htmls)
    \/ DupCheck

SeoSpec == SeoInit /\ [][SeoNext]_vars

\* --------------------------------------------------------- properties
\* sitemap_scan has just returned
SitemapScanReturned == pc = "seo_scan" /\ Has(scan_data, "status_code")
\* the <url> entries of the primary sitemap of this scan
PrimaryItemCount == IF scan_data["status_code"] = HTTPStatus_OK
                    THEN scan_data["url_tag_count"] ELSE 0

\* C1: when sitemap_scan returns, the total URL count is the primary
\* sitemap's <url> count plus the counts of the child sitemaps fetched with
\* status OK, and it is never smaller than the primary sitemap's count.
C1_TotalUrlCount ==
    SitemapScanReturned =>
        /\ scan_data["Total URLs"] = PrimaryItemCount + additional_urls
        /\ scan_data["Total URLs"] >= PrimaryItemCount

\* the robots request of this scan was answered OK with a crawl delay in it
CrawlDelayFound ==
    /\ robots.bound
    /\ robots.value.status_code = HTTPStatus_OK
    /\ robots.value.text.crawl_delay /= <<>>

\* C2: when the robots request was answered OK with a crawl delay d in its
\* body, then on return of sitemap_scan the estimated index time is
\* total_url_count * d / 3600.
C2_EstimatedIndexTime ==
    (SitemapScanReturned /\ CrawlDelayFound) =>
        /\ scan_data["Est time to index"] /= "Unknown"
        /\ scan_data["Est time to index"] =
              EstTimeToIndex(scan_data["Total URLs"], robots.value.text.crawl_delay[1])

\* C3: the request made for the robots status, the crawl delay and the
\* robots-declared sitemaps is for {base}/robots.txt, never for
\* {base}/sitemap.xml again.
C3_RobotsRequest ==
    http.by = "robots" => http.url = Url(fqd, "/robots.txt")

\* C4: every domain's scan starts from a fresh record holding the default
\* values, so that nothing a scan computes depends on the scans before it.
C4_FreshRecord ==
    pc = "sitemap_scan" => scan_data = scan_data_default

\* C5: a transport failure of the primary sitemap request or of the robots
\* request is caught, a status is recorded in the corresponding field and
\* sitemap_scan goes on instead of aborting the scan.
C5_TransportFailureRecovered ==
    (http.by \in {"sitemap", "robots"} /\ http.raised) =>
        /\ pc /= "crashed"
        /\ Has(scan_data, IF http.by = "sitemap" THEN "status_code" ELSE "robots")

\* C6: a fatal error while one domain is scanned does not keep the other
\* domains of the batch from being scanned and from getting their row in
\* the output: the program never ends with another domain's row missing.
C6_FailureIsolated ==
    pc = "crashed" => \A k \in (DOMAIN domains) \ {i} : k <= Len(csv)

\* seo_scan is over, by a return or by an exception of its duplicate checks
DupCheckFailed == pc = "crashed" /\ error[2] \in {247, 249}
Warned(tag) == Has(results["Warnings"], tag)

\* C7: after all pages the warnings hold the duplicate-titles warning exactly
\* when the collected titles hold a repeated value, and the
\* duplicate-descriptions warning exactly when the collected descriptions do;
\* in both cases seo_scan returns the record.
C7_DuplicateWarnings ==
    /\ ~DupCheckFailed
    /\ pc = "seo_returned" =>
          /\ Warned("Duplicate titles found") <=> HasDuplicates(titles)
          /\ Warned("Duplicate descriptions found") <=> HasDuplicates(descriptions)

\* the keys sitemap_scan writes
SitemapFields == {"status_code", "final_url", "url_tag_count", "pdfs_in_urls",
                  "sitemap_locations_from_index", "robots", "crawl_delay",
                  "sitemap_locations_from_robotstxt", "Total URLs", "Est time to index"}

\* C8: the page pass fills the record the sitemap pass filled: the record
\* scan(domain) returns carries every sitemap field, with the value the
\* sitemap pass wrote, next to the page-audit fields.
C8_SameRecord ==
    pc = "seo_returned" =>
        \A k \in SitemapFields \cap DOMAIN scan_data :
            Has(results, k) /\ results[k] = scan_data[k]

\* the step audits a page that answered with a status that is not OK
NotFoundStep ==
    /\ page_i' = page_i + 1
    /\ ~http'.raised
    /\ r'.value.status_code /= HTTPStatus_OK

\* C9: during the page pass of a domain, main_landmark_found and
\* search_control_found never go back from true to false, whatever the later
\* pages answer; a page with a status that is not OK gets the not-found
\* marker and changes neither flag.
C9_FlagsMonotonic ==
    [][pc = "pages" =>
          /\ results["Main tags found"] => results'["Main tags found"]
          /\ results["Search found"] => results'["Search found"]
          /\ NotFoundStep =>
                /\ results'[pages[page_i]] = "404"
                /\ results'["Main tags found"] = results["Main tags found"]
                /\ results'["Search found"] = results["Search found"]]_vars

\* both pages were audited to the end; the second has neither a main tag nor
\* a search control, and both flags are still true from the first
C9_Witness ==
    /\ pc = "pages"
    /\ page_i > Len(pages)
    /\ Len(titles) = Len(pages)
    /\ ~http.raised
    /\ r.value.status_code = HTTPStatus_OK
    /\ ~r.value.text.main /\ ~r.value.text.role_main
    /\ ~r.value.text.input_search /\ ~r.value.text.class_search
    /\ ~r.value.text.description.found /\ ~DateTag(r.value.text).found
    /\ results["Main tags found"] /\ results["Search found"]

\* C10: the loops over the child sitemaps never request a child whose url is
\* the primary sitemap's final url.
C10_NoRefetchOfPrimary ==
    http.by \in {"index_child", "robots_child"} => http.url /= scan_data["final_url"]

\* the loop over the robots.txt list has just passed, without a request, a
\* last entry that is the primary sitemap's final url
C10_Witness ==
    LET list == scan_data["sitemap_locations_from_robotstxt"] IN
    /\ pc = "robots_loop"
    /\ locs = <<>>
    /\ list /= <<>>
    /\ list[Len(list)] = scan_data["final_url"]
    /\ http = NoExchange

====
